---- MODULE Spec2Model ----
(***************************************************************************)
(* A model of the RLP serializer (src/rlp_serializer.c): rlp_encode_element *)
(* and rlp_encode_list acting on a flat byte-addressed memory.             *)
(*                                                                         *)
(* Memory is one function from addresses to bytes; address 0 is NULL.  The *)
(* destination buffer and every element's source are views (address,       *)
(* length) over that memory, so aliasing, adjacency and overruns are what  *)
(* the pointer arithmetic of the code makes them.                          *)
(***************************************************************************)
EXTENDS Integers, Sequences, FiniteSets, TLC

(* ------------------------------------------------------------------------ *)
(* Program constants                                                        *)
(* ------------------------------------------------------------------------ *)

RLP_EXTENDED_LENGTH_THRESHOLD == 55
RLP_OFFSET_LIST_SHORT == 192
RLP_OFFSET_LIST_LONG == 247
RLP_OFFSET_ITEM_SHORT == 128
RLP_OFFSET_ITEM_LONG == 183

RLP_TYPE_INVALID == 0
RLP_TYPE_BYTE_ARRAY == 1
RLP_TYPE_INT8 == 2
RLP_TYPE_INT16 == 3
RLP_TYPE_INT32 == 4
RLP_TYPE_INT64 == 5
RLP_TYPE_INT128 == 6
RLP_TYPE_INT256 == 7
RLP_TYPE_INT512 == 8
RLP_TYPE_INT1024 == 9

ERR_RLP_EUNKNOWN == -128
ERR_RLP_EBADARG == -127
ERR_RLP_EILLEGALMEM == -126
ERR_RLP_ENOMEM == -125
ERR_RLP_OK == 0

NULL == 0

(* ------------------------------------------------------------------------ *)
(* Bounds of the model                                                      *)
(* ------------------------------------------------------------------------ *)

\* Longest list handed to rlp_encode_list.
MaxElems == 2
\* Destination capacities range up to this many bytes past the len + 1 bytes
\* per element that the first capacity check asks for.
MaxSlack == 5
\* The longest source (two length bytes in the long form).
LongLen == 256
\* Distance of the "far" source placements from the destination.
FarGap == 12

(* ------------------------------------------------------------------------ *)
(* Utilities                                                                *)
(* ------------------------------------------------------------------------ *)

Min(a, b) == IF a < b THEN a ELSE b
Max(a, b) == IF a < b THEN b ELSE a

\* (uint8_t) x
U8(x) == x % 256

\* x >> (8 * i) on a non-negative value
RECURSIVE Shr8(_, _)
Shr8(x, i) == IF i = 0 THEN x ELSE Shr8(x \div 256, i - 1)

RLP_TYPE_IS_INTEGER_TYPE(x) == (x >= RLP_TYPE_INT8) /\ (x <= RLP_TYPE_INT1024)

\* rlp_memoverlap without its third case: a source that starts below the
\* destination is never found to overlap it.
rlp_memoverlap_oneSided(a, sza, b, szb) ==
    \/ a = b
    \/ (a < b) /\ ((a + sza) >= b)

rlp_memoverlap(a, sza, b, szb) ==
    \/ a = b
    \/ (a < b) /\ ((a + sza) >= b)
    \/ (b < a) /\ ((b + szb) >= a)

rlp_int_size_from_type(t) ==
    CASE t = RLP_TYPE_INT8    -> 1
      [] t = RLP_TYPE_INT16   -> 2
      [] t = RLP_TYPE_INT32   -> 4
      [] t = RLP_TYPE_INT64   -> 8
      [] t = RLP_TYPE_INT128  -> 16
      [] t = RLP_TYPE_INT256  -> 32
      [] t = RLP_TYPE_INT512  -> 64
      [] t = RLP_TYPE_INT1024 -> 128
      [] OTHER                -> ERR_RLP_EBADARG

rlp_type_mem_check(buffSz, type) ==
    IF RLP_TYPE_IS_INTEGER_TYPE(type)
    THEN buffSz = rlp_int_size_from_type(type)
    ELSE IF type = RLP_TYPE_BYTE_ARRAY THEN TRUE
    ELSE FALSE

\* A value of the enum RlpType_t.  The enum has no negative enumerator, so
\* the build gives it the type unsigned int: an int returned through it is
\* converted modulo 2^32.  The 32-bit value is kept as two 16-bit halves
\* (value = hi * 65536 + lo), ERR_RLP_EBADARG becoming 65535 * 65536 + 65409
\* = 4294967169.
RlpTypeValue(v) ==
    [hi |-> (v \div 65536) % 65536, lo |-> v % 65536]

\* (int) cast of an RlpType_t value: the same 32 bits read as two's complement.
RlpTypeAsInt(t) ==
    IF t.hi >= 32768 THEN (t.hi - 65536) * 65536 + t.lo
    ELSE t.hi * 65536 + t.lo

\* for (i = RLP_TYPE_INT8; i <= RLP_TYPE_INT1024; i++) if (s == size(i)) return i;
\* return ERR_RLP_EBADARG;   -- through the return type RlpType_t
rlp_int_type_from_size(s) ==
    LET hits == {i \in RLP_TYPE_INT8 .. RLP_TYPE_INT1024 : s = rlp_int_size_from_type(i)}
    IN  IF hits = {} THEN RlpTypeValue(ERR_RLP_EBADARG)
        ELSE RlpTypeValue(CHOOSE i \in hits : \A j \in hits : i <= j)

(* ------------------------------------------------------------------------ *)
(* memcpy.  The C library copies n bytes; when the two ranges overlap the   *)
(* behaviour is undefined and the result depends on the direction in which  *)
(* the build's memcpy walks the ranges, which is an input of the model      *)
(* ("fwd": ascending addresses, "bwd": descending addresses).               *)
(* ------------------------------------------------------------------------ *)

\* The byte copies d[i] = s[i] for i = lo, lo + 1, ..., hi - 1, in that order.
\* The range is halved so that the evaluation stays shallow, and the test on
\* half[0] only makes TLC compute the first half before it starts the second.
RECURSIVE CopyFwd(_, _, _, _, _)
CopyFwd(m, d, s, lo, hi) ==
    IF hi <= lo THEN m
    ELSE IF hi = lo + 1 THEN [m EXCEPT ![d + lo] = m[s + lo]]
    ELSE LET half == CopyFwd(m, d, s, lo, (lo + hi) \div 2)
         IN  IF half[0] = half[0] THEN CopyFwd(half, d, s, (lo + hi) \div 2, hi) ELSE m

\* The byte copies d[i] = s[i] for i = hi - 1, hi - 2, ..., lo, in that order.
RECURSIVE CopyBwd(_, _, _, _, _)
CopyBwd(m, d, s, lo, hi) ==
    IF hi <= lo THEN m
    ELSE IF hi = lo + 1 THEN [m EXCEPT ![d + lo] = m[s + lo]]
    ELSE LET half == CopyBwd(m, d, s, (lo + hi) \div 2, hi)
         IN  IF half[0] = half[0] THEN CopyBwd(half, d, s, lo, (lo + hi) \div 2) ELSE m

memcpy(m, d, s, n, dir) ==
    IF dir = "bwd" THEN CopyBwd(m, d, s, 0, n) ELSE CopyFwd(m, d, s, 0, n)

(* ------------------------------------------------------------------------ *)
(* Results.  An encoder yields its return value, the memory it leaves, and  *)
(* the addresses it wrote (wr) and read (rd); hdr holds the addresses the   *)
(* list encoder touches while it inserts the list header.                   *)
(* ------------------------------------------------------------------------ *)

Res(ret, m, wr, rd) == [ret |-> ret, mem |-> m, wr |-> wr, rd |-> rd, hdr |-> {}]

(* ------------------------------------------------------------------------ *)
(* rlp_encode_element                                                       *)
(* ------------------------------------------------------------------------ *)

\* The leading-zero scan of an integer element: the index of the first
\* non-zero byte, or len when every byte is zero.
ScanZero(m, buffBase, len) ==
    LET nonZero == {scanZero \in 0 .. len - 1 : m[buffBase + scanZero] # 0}
    IN  IF nonZero = {} THEN len
        ELSE CHOOSE scanZero \in nonZero : \A j \in nonZero : scanZero <= j

\* while (tmpLength != 0) { ++lengthOfLength; tmpLength = tmpLength >> 8; }
RECURSIVE LengthOfLength(_)
LengthOfLength(tmpLength) ==
    IF tmpLength = 0 THEN 0 ELSE 1 + LengthOfLength(tmpLength \div 256)

\* for (i = lengthOfLength; i > 0; --i) { rlpOut[i] = (uint8_t) tmpLength; tmpLength >>= 8; }
RECURSIVE WriteLength(_, _, _, _)
WriteLength(m, rlpOut, i, tmpLength) ==
    IF i <= 0 THEN m
    ELSE WriteLength([m EXCEPT ![rlpOut + i] = U8(tmpLength)], rlpOut, i - 1,
                     tmpLength \div 256)

\* The number of bytes the long form hands to memcpy for the payload.
LongCopyLen(rlpElementLen, lengthOfLength) == rlpElementLen + lengthOfLength + 1

\* The long form with the header byte written before the capacity is checked.
ElementLong_headerFirst(m, rlpOut, rlpEncodedOutputLen, rlpElementBuff, rlpElementLen, rd0, dir) ==
    LET lengthOfLength == LengthOfLength(rlpElementLen)
        n  == LongCopyLen(rlpElementLen, lengthOfLength)
        m1 == [m EXCEPT ![rlpOut] = U8(RLP_OFFSET_ITEM_LONG + lengthOfLength)]
        m2 == WriteLength(m1, rlpOut, lengthOfLength, rlpElementLen)
        m3 == memcpy(m2, rlpOut + 1 + lengthOfLength, rlpElementBuff, n, dir)
    IN  IF rlpEncodedOutputLen < (rlpElementLen + lengthOfLength + 1)
        THEN Res(ERR_RLP_ENOMEM, m1, {rlpOut}, rd0)
        ELSE Res(rlpElementLen + lengthOfLength + 1, m3,
                 (rlpOut .. rlpOut + lengthOfLength)
                   \cup ((rlpOut + 1 + lengthOfLength) .. (rlpOut + lengthOfLength + n)),
                 rd0 \cup (rlpElementBuff .. rlpElementBuff + n - 1))

\* The long form: the element needs an extended length.
ElementLong(m, rlpOut, rlpEncodedOutputLen, rlpElementBuff, rlpElementLen, rd0, dir) ==
    LET lengthOfLength == LengthOfLength(rlpElementLen)
        n  == LongCopyLen(rlpElementLen, lengthOfLength)
        m1 == [m EXCEPT ![rlpOut] = U8(RLP_OFFSET_ITEM_LONG + lengthOfLength)]
        m2 == WriteLength(m1, rlpOut, lengthOfLength, rlpElementLen)
        m3 == memcpy(m2, rlpOut + 1 + lengthOfLength, rlpElementBuff, n, dir)
    IN  IF rlpEncodedOutputLen < (rlpElementLen + lengthOfLength + 1)
        THEN Res(ERR_RLP_ENOMEM, m, {}, rd0)
        ELSE Res(rlpElementLen + lengthOfLength + 1, m3,
                 (rlpOut .. rlpOut + lengthOfLength)
                   \cup ((rlpOut + 1 + lengthOfLength) .. (rlpOut + lengthOfLength + n)),
                 rd0 \cup (rlpElementBuff .. rlpElementBuff + n - 1))

\* Element header generation and payload copy.
ElementHeader(m, rlpOut, rlpEncodedOutputLen, rlpElementBuff, rlpElementLen, rd0, dir) ==
    IF rlpElementLen = 0
    THEN Res(1, [m EXCEPT ![rlpOut] = U8(RLP_OFFSET_ITEM_SHORT)], {rlpOut}, rd0)
    ELSE IF rlpElementLen = 1 /\ (m[rlpElementBuff] = 0
                                  \/ m[rlpElementBuff] < RLP_OFFSET_ITEM_SHORT)
    THEN Res(1, [m EXCEPT ![rlpOut] = m[rlpElementBuff]], {rlpOut},
             rd0 \cup {rlpElementBuff})
    ELSE IF rlpElementLen <= RLP_EXTENDED_LENGTH_THRESHOLD
    THEN LET m1 == [m EXCEPT ![rlpOut] = U8(RLP_OFFSET_ITEM_SHORT + rlpElementLen)]
             m2 == memcpy(m1, rlpOut + 1, rlpElementBuff, rlpElementLen, dir)
         IN  Res(rlpElementLen + 1, m2, rlpOut .. (rlpOut + rlpElementLen),
                 rd0 \cup (rlpElementBuff .. rlpElementBuff + rlpElementLen - 1))
    ELSE ElementLong(m, rlpOut, rlpEncodedOutputLen, rlpElementBuff, rlpElementLen,
                     rd0, dir)

\* The argument checks made before anything is written: 0 when they pass.
ElementChecks(rlpEncodedOutput, rlpEncodedOutputLen, rlpElement) ==
    IF \/ rlpEncodedOutput = NULL
       \/ rlpElement.null
       \/ rlpEncodedOutputLen = 0
       \/ rlpElement.type = RLP_TYPE_INVALID
       \/ ~rlp_type_mem_check(rlpElement.len, rlpElement.type)
    THEN ERR_RLP_EBADARG
    ELSE IF rlpEncodedOutputLen < (rlpElement.len + 1)
    THEN ERR_RLP_ENOMEM
    ELSE IF rlp_memoverlap(rlpEncodedOutput, rlpEncodedOutputLen,
                           rlpElement.buff, rlpElement.len)
    THEN ERR_RLP_EILLEGALMEM
    ELSE 0

rlp_encode_element(m, rlpEncodedOutput, rlpEncodedOutputLen, rlpElement, dir) ==
    LET chk == ElementChecks(rlpEncodedOutput, rlpEncodedOutputLen, rlpElement)
        isInt == RLP_TYPE_IS_INTEGER_TYPE(rlpElement.type)
        scanZero == IF isInt THEN ScanZero(m, rlpElement.buff, rlpElement.len) ELSE 0
        rlpElementBuff == IF scanZero < rlpElement.len
                          THEN rlpElement.buff + scanZero
                          ELSE rlpElement.buff
        rlpElementLen == rlpElement.len - scanZero
        scanRd == IF isInt
                  THEN rlpElement.buff ..
                         (rlpElement.buff + Min(scanZero, rlpElement.len - 1))
                  ELSE {}
    IN  IF chk # 0 THEN Res(chk, m, {}, {})
        ELSE ElementHeader(m, rlpEncodedOutput, rlpEncodedOutputLen,
                           rlpElementBuff, rlpElementLen, scanRd, dir)

(* ------------------------------------------------------------------------ *)
(* rlp_encode_list                                                          *)
(* ------------------------------------------------------------------------ *)

\* First loop: room for len + 1 bytes per element, and no overlap.
\* 0 when every element passes.
RECURSIVE PreFlight(_, _, _, _, _)
PreFlight(rlpEncodedOutput, rlpEncodedOutputLen, ptrs, i, spaceRemaining) ==
    IF i > Len(ptrs) THEN 0
    ELSE IF spaceRemaining < (ptrs[i].len + 1) THEN ERR_RLP_ENOMEM
    ELSE IF rlp_memoverlap(rlpEncodedOutput, rlpEncodedOutputLen,
                           ptrs[i].buff, ptrs[i].len)
    THEN ERR_RLP_EILLEGALMEM
    ELSE PreFlight(rlpEncodedOutput, rlpEncodedOutputLen, ptrs, i + 1,
                   spaceRemaining - (ptrs[i].len + 1))

\* Second loop: encode each element at rlpOut + rlpEncodedLen.
\* acc is [ret, mem, wr, rd, len]: ret < 0 once an element has failed.
RECURSIVE EncodeEach(_, _, _, _, _, _)
EncodeEach(acc, rlpOut, rlpEncodedOutputLen, ptrs, i, dir) ==
    IF i > Len(ptrs) THEN acc
    ELSE LET r == rlp_encode_element(acc.mem, rlpOut + acc.len,
                                     rlpEncodedOutputLen - acc.len, ptrs[i], dir)
         IN  IF r.ret < 0
             THEN [ret |-> r.ret, mem |-> r.mem, wr |-> acc.wr \cup r.wr,
                   rd |-> acc.rd \cup r.rd, len |-> acc.len]
             ELSE EncodeEach([ret |-> 0, mem |-> r.mem, wr |-> acc.wr \cup r.wr,
                              rd |-> acc.rd \cup r.rd, len |-> acc.len + r.ret],
                             rlpOut, rlpEncodedOutputLen, ptrs, i + 1, dir)

\* for (byteShifts = rlpEncodedLen; byteShifts > 0; byteShifts >>= 8) listHdrByteCnt++;
\* if (rlpEncodedLen > RLP_EXTENDED_LENGTH_THRESHOLD) listHdrByteCnt++;
ListHdrByteCnt(rlpEncodedLen) ==
    LengthOfLength(rlpEncodedLen)
      + (IF rlpEncodedLen > RLP_EXTENDED_LENGTH_THRESHOLD THEN 1 ELSE 0)

\* First index the shift loop writes: i = listHdrByteCnt + rlpEncodedLen.
ShiftStart(listHdrByteCnt, rlpEncodedLen) == listHdrByteCnt + rlpEncodedLen

\* The shift made lowest index first: the steps i = lo, lo + 1, ..., hi.
RECURSIVE ShiftDown_lowestFirst(_, _, _, _, _)
ShiftDown_lowestFirst(m, rlpOut, listHdrByteCnt, lo, hi) ==
    IF hi < lo THEN m
    ELSE IF hi = lo
    THEN [m EXCEPT ![rlpOut + lo] = m[rlpOut + lo - listHdrByteCnt]]
    ELSE LET half == ShiftDown_lowestFirst(m, rlpOut, listHdrByteCnt, lo, (lo + hi) \div 2)
         IN  IF half[0] = half[0]
             THEN ShiftDown_lowestFirst(half, rlpOut, listHdrByteCnt,
                                        ((lo + hi) \div 2) + 1, hi)
             ELSE m

\* for (i = listHdrByteCnt + rlpEncodedLen; i >= listHdrByteCnt; i--)
\*     rlpOut[i] = rlpOut[i - listHdrByteCnt];
\* The steps i = hi, hi - 1, ..., lo, in that order (halved as in CopyBwd).
RECURSIVE ShiftDown(_, _, _, _, _)
ShiftDown(m, rlpOut, listHdrByteCnt, lo, hi) ==
    IF hi < lo THEN m
    ELSE IF hi = lo
    THEN [m EXCEPT ![rlpOut + lo] = m[rlpOut + lo - listHdrByteCnt]]
    ELSE LET half == ShiftDown(m, rlpOut, listHdrByteCnt, ((lo + hi) \div 2) + 1, hi)
         IN  IF half[0] = half[0]
             THEN ShiftDown(half, rlpOut, listHdrByteCnt, lo, (lo + hi) \div 2)
             ELSE m

\* for (i = 0; i < listHdrByteCnt; i++)
\*     rlpOut[(listHdrByteCnt - 1) - i] = (uint8_t) (rlpEncodedLen >> (8 * i));
RECURSIVE GenHeader(_, _, _, _, _)
GenHeader(m, rlpOut, listHdrByteCnt, rlpEncodedLen, i) ==
    IF i >= listHdrByteCnt THEN m
    ELSE GenHeader([m EXCEPT ![rlpOut + (listHdrByteCnt - 1) - i] =
                              U8(Shr8(rlpEncodedLen, i))],
                   rlpOut, listHdrByteCnt, rlpEncodedLen, i + 1)

\* The value rlp_encode_list returns once the header is in place.
ListReturn(rlpEncodedLen, listHdrByteCnt) == rlpEncodedLen + listHdrByteCnt

\* Header size, capacity check, shift and header write.
ListHeader(acc, rlpOut, rlpEncodedOutputLen) ==
    LET rlpEncodedLen == acc.len
        listHdrByteCnt == ListHdrByteCnt(rlpEncodedLen)
        top == ShiftStart(listHdrByteCnt, rlpEncodedLen)
        m1 == ShiftDown(acc.mem, rlpOut, listHdrByteCnt, listHdrByteCnt, top)
        m2 == IF rlpEncodedLen > RLP_EXTENDED_LENGTH_THRESHOLD
              THEN [GenHeader(m1, rlpOut, listHdrByteCnt, rlpEncodedLen, 0)
                      EXCEPT ![rlpOut] = U8(RLP_OFFSET_LIST_LONG + (listHdrByteCnt - 1))]
              ELSE [m1 EXCEPT ![rlpOut] = U8(RLP_OFFSET_LIST_SHORT + rlpEncodedLen)]
        shiftWr == (rlpOut + listHdrByteCnt) .. (rlpOut + top)
        shiftRd == rlpOut .. (rlpOut + top - listHdrByteCnt)
        hdrWr == IF rlpEncodedLen > RLP_EXTENDED_LENGTH_THRESHOLD
                 THEN rlpOut .. (rlpOut + listHdrByteCnt - 1)
                 ELSE {rlpOut}
    IN  IF (listHdrByteCnt + rlpEncodedLen) > rlpEncodedOutputLen
        THEN Res(ERR_RLP_ENOMEM, acc.mem, acc.wr, acc.rd)
        ELSE [ret |-> ListReturn(rlpEncodedLen, listHdrByteCnt),
              mem |-> m2,
              wr  |-> acc.wr \cup shiftWr \cup hdrWr,
              rd  |-> acc.rd \cup shiftRd,
              hdr |-> shiftWr \cup shiftRd \cup hdrWr]

rlp_encode_list(m, rlpEncodedOutput, rlpEncodedOutputLen, rlpElementsArr, dir) ==
    LET pre == PreFlight(rlpEncodedOutput, rlpEncodedOutputLen,
                         rlpElementsArr.ptrs, 1, rlpEncodedOutputLen)
        acc == EncodeEach([ret |-> 0, mem |-> m, wr |-> {}, rd |-> {}, len |-> 0],
                          rlpEncodedOutput, rlpEncodedOutputLen,
                          rlpElementsArr.ptrs, 1, dir)
    IN  IF rlpEncodedOutput = NULL \/ rlpElementsArr.null \/ rlpEncodedOutputLen = 0
        THEN Res(ERR_RLP_EBADARG, m, {}, {})
        ELSE IF pre # 0 THEN Res(pre, m, {}, {})
        ELSE IF acc.ret < 0 THEN Res(acc.ret, acc.mem, acc.wr, acc.rd)
        ELSE ListHeader(acc, rlpEncodedOutput, rlpEncodedOutputLen)

(* ------------------------------------------------------------------------ *)
(* State                                                                    *)
(* ------------------------------------------------------------------------ *)

VARIABLES
    mem,                  \* memory: address -> byte
    rlpEncodedOutput,     \* destination address (NULL = 0)
    rlpEncodedOutputLen,  \* destination capacity
    rlpElement,           \* the element handed to rlp_encode_element
    rlpElementsArr,       \* the array handed to rlp_encode_list
    memcpyDir,            \* the direction of the build's memcpy
    call,                 \* which function the caller calls
    pc,                   \* "call" before the call, "done" after it
    ret,                  \* the value returned
    mem0,                 \* memory as it was when the call was made
    wr,                   \* addresses written by the call
    rd,                   \* addresses read by the call
    hdr                   \* addresses touched by the list header insertion

vars == <<mem, rlpEncodedOutput, rlpEncodedOutputLen, rlpElement, rlpElementsArr,
          memcpyDir, call, pc, ret, mem0, wr, rd, hdr>>

(* ------------------------------------------------------------------------ *)
(* Inputs                                                                   *)
(* ------------------------------------------------------------------------ *)

\* An RlpElement_t pointer: NULL, or a struct {type, len, buff}.
NullElement == [null |-> TRUE, type |-> RLP_TYPE_INVALID, len |-> 0, buff |-> NULL]
Element(type, len, buff) == [null |-> FALSE, type |-> type, len |-> len, buff |-> buff]

\* An RlpElement_t const *const * : NULL, or an array of element pointers.
NullArr == [null |-> TRUE, ptrs |-> <<>>]
Arr(ptrs) == [null |-> FALSE, ptrs |-> ptrs]

\* Background content of memory: never zero, next bytes differ.
Ramp(a) == ((a * 37) % 255) + 1

RECURSIVE SeqMax(_)
SeqMax(s) == IF s = <<>> THEN 0 ELSE Max(Head(s), SeqMax(Tail(s)))

RECURSIVE SeqSum(_)
SeqSum(s) == IF s = <<>> THEN 0 ELSE Head(s) + SeqSum(Tail(s))

\* Memory layout: the sources that lie far from the destination have slots of
\* their own, one after the other from address 1, each followed by FarGap
\* bytes; the destination follows the last slot.
SlotBase(lens, i) == 1 + SeqSum([j \in 1 .. i - 1 |-> lens[j] + FarGap])
DstBase(lens) == SlotBase(lens, Len(lens) + 1) + FarGap

\* Where a source of len bytes lies relative to the destination (dst, cap).
Placements == {"far", "touchBefore", "gapBefore", "tail", "same", "inside",
               "last", "touchAfter", "gapAfter", "farAfter"}

ListPlacements == {"far", "touchBefore", "gapBefore", "tail", "same", "touchAfter",
                   "gapAfter"}

Place(p, slot, len, dst, cap) ==
    CASE p = "far"         -> IF len = 0 THEN NULL ELSE slot
      [] p = "touchBefore" -> dst - len
      [] p = "gapBefore"   -> dst - len - 1
      [] p = "tail"        -> dst - len + 1
      [] p = "same"        -> dst
      [] p = "inside"      -> dst + 1
      [] p = "last"        -> dst + cap - 1
      [] p = "touchAfter"  -> dst + cap
      [] p = "gapAfter"    -> dst + cap + 1
      [] OTHER             -> dst + cap + FarGap

IntTypes == RLP_TYPE_INT8 .. RLP_TYPE_INT1024

ByteLens == {0, 1, 2, RLP_EXTENDED_LENGTH_THRESHOLD, RLP_EXTENDED_LENGTH_THRESHOLD + 1,
             RLP_EXTENDED_LENGTH_THRESHOLD + 2, LongLen}

\* Lengths of the run of zero bytes a source starts with.
ZeroRuns(len) == {z \in {0, 1, 8, 9, len} : z <= len}

\* Shapes of an element: type, len, and leading zero bytes (lz).
Shape(type, len, lz) == [type |-> type, len |-> len, lz |-> lz]

ElementShapes ==
    {Shape(RLP_TYPE_BYTE_ARRAY, l, z) : l \in ByteLens, z \in {0, 1}}
      \cup UNION {{Shape(t, rlp_int_size_from_type(t), z) :
                      z \in ZeroRuns(rlp_int_size_from_type(t))} : t \in IntTypes}
      \cup {Shape(RLP_TYPE_INT16, 4, 0), Shape(RLP_TYPE_INT32, 2, 0),
            Shape(RLP_TYPE_INVALID, 1, 0), Shape(RLP_TYPE_INT1024 + 1, 1, 0)}

ListShapes ==
    {Shape(RLP_TYPE_BYTE_ARRAY, 0, 0), Shape(RLP_TYPE_BYTE_ARRAY, 1, 0),
     Shape(RLP_TYPE_BYTE_ARRAY, RLP_EXTENDED_LENGTH_THRESHOLD - 1, 0),
     Shape(RLP_TYPE_BYTE_ARRAY, RLP_EXTENDED_LENGTH_THRESHOLD, 0),
     Shape(RLP_TYPE_BYTE_ARRAY, LongLen, 0),
     Shape(RLP_TYPE_INT32, 4, 1)}

\* The zero bytes a source at buff starts with.
ZeroSet(buff, len, lz) == IF buff = NULL THEN {} ELSE buff .. (buff + Min(lz, len) - 1)

\* The memory image: zero runs over the background, up to address top.
Image(zeros, top) == [a \in 0 .. top |-> IF a \in zeros THEN 0 ELSE Ramp(a)]

InitCommon ==
    /\ memcpyDir \in {"fwd", "bwd"}
    /\ pc = "call"
    /\ ret = 0
    /\ mem0 = mem
    /\ wr = {}
    /\ rd = {}
    /\ hdr = {}

InitElement ==
    /\ call = "element"
    /\ rlpElementsArr = NullArr
    /\ \/ /\ rlpElement = NullElement
          /\ rlpEncodedOutput \in {NULL, DstBase(<<>>)}
          /\ rlpEncodedOutputLen \in {0, 1}
          /\ mem = Image({}, DstBase(<<>>) + FarGap)
       \/ \E sh \in ElementShapes, p \in Placements, null \in BOOLEAN :
            \E cap \in {0, 1} \cup {sh.len + 1 + s : s \in -1 .. MaxSlack} :
               LET dst  == DstBase(<<sh.len>>)
                   buff == Place(p, SlotBase(<<sh.len>>, 1), sh.len, dst, cap)
               IN  /\ rlpEncodedOutput = IF null THEN NULL ELSE dst
                   /\ rlpElement = Element(sh.type, sh.len, buff)
                   /\ rlpEncodedOutputLen = cap
                   /\ mem = Image(ZeroSet(buff, sh.len, sh.lz),
                                  Max(dst + cap, buff + sh.len) + FarGap)
    /\ InitCommon

\* The elements of a list: element k is placed by p, the others in their slots.
ListPtrs(shapes, k, p, dst, cap) ==
    LET lens == [i \in 1 .. Len(shapes) |-> shapes[i].len]
    IN  [i \in 1 .. Len(shapes) |->
            Element(shapes[i].type, shapes[i].len,
                    Place(IF i = k THEN p ELSE "far", SlotBase(lens, i),
                          shapes[i].len, dst, cap))]

ListZeros(shapes, ptrs) ==
    UNION {ZeroSet(ptrs[i].buff, ptrs[i].len, shapes[i].lz) : i \in 1 .. Len(ptrs)}

ListTop(ptrs, dst, cap) ==
    Max(dst + cap, SeqMax([i \in 1 .. Len(ptrs) |-> ptrs[i].buff + ptrs[i].len]))
      + FarGap

InitList ==
    /\ call = "list"
    /\ rlpElement = NullElement
    /\ \/ /\ rlpEncodedOutput \in {NULL, DstBase(<<>>)}
          /\ rlpElementsArr \in {NullArr, Arr(<<>>)}
          /\ rlpEncodedOutputLen \in {0, 1, 2}
          /\ mem = Image({}, DstBase(<<>>) + FarGap)
       \/ \E n \in 1 .. MaxElems :
            \E shapes \in [1 .. n -> ListShapes], k \in {1, n}, p \in ListPlacements :
              \E cap \in {0} \cup {SeqSum([i \in 1 .. n |-> shapes[i].len + 1]) + s :
                                      s \in -1 .. MaxSlack} :
                 LET dst  == DstBase([i \in 1 .. n |-> shapes[i].len])
                     ptrs == ListPtrs(shapes, k, p, dst, cap)
                 IN  /\ rlpEncodedOutput = dst
                     /\ rlpElementsArr = Arr(ptrs)
                     /\ rlpEncodedOutputLen = cap
                     /\ mem = Image(ListZeros(shapes, ptrs), ListTop(ptrs, dst, cap))
    /\ InitCommon

Init == InitElement \/ InitList

(* ------------------------------------------------------------------------ *)
(* Actions: the caller makes its one call                                   *)
(* ------------------------------------------------------------------------ *)

Return(r) ==
    /\ mem' = r.mem
    /\ ret' = r.ret
    /\ wr' = r.wr
    /\ rd' = r.rd
    /\ hdr' = r.hdr
    /\ pc' = "done"
    /\ UNCHANGED <<rlpEncodedOutput, rlpEncodedOutputLen, rlpElement, rlpElementsArr,
                   memcpyDir, call, mem0>>

CallEncodeElement ==
    /\ pc = "call"
    /\ call = "element"
    /\ Return(rlp_encode_element(mem, rlpEncodedOutput, rlpEncodedOutputLen,
                                 rlpElement, memcpyDir))

CallEncodeList ==
    /\ pc = "call"
    /\ call = "list"
    /\ Return(rlp_encode_list(mem, rlpEncodedOutput, rlpEncodedOutputLen,
                              rlpElementsArr, memcpyDir))

Next == CallEncodeElement \/ CallEncodeList

SpecElement == InitElement /\ [][CallEncodeElement]_vars
SpecList == InitList /\ [][CallEncodeList]_vars
Spec == Init /\ [][Next]_vars

(* ------------------------------------------------------------------------ *)
(* The reference RLP encoding, on byte sequences                            *)
(* ------------------------------------------------------------------------ *)

\* The minimal big-endian bytes of n: none for 0, no leading zero byte.
RECURSIVE BigEndian(_)
BigEndian(n) == IF n = 0 THEN <<>> ELSE Append(BigEndian(n \div 256), n % 256)

\* The value of big-endian bytes.
RECURSIVE BigEndianValue(_)
BigEndianValue(b) ==
    IF b = <<>> THEN 0
    ELSE 256 * BigEndianValue(SubSeq(b, 1, Len(b) - 1)) + b[Len(b)]

\* The item encoding of a payload.
RefItem(p) ==
    IF Len(p) = 1 /\ p[1] < 128 THEN p
    ELSE IF Len(p) <= 55 THEN <<128 + Len(p)>> \o p
    ELSE <<183 + Len(BigEndian(Len(p)))>> \o BigEndian(Len(p)) \o p

\* The payload an item encoding decodes to.
RefDecodeItem(b) ==
    IF b[1] < 128 THEN <<b[1]>>
    ELSE IF b[1] <= 183 THEN SubSeq(b, 2, 1 + (b[1] - 128))
    ELSE LET k == b[1] - 183
             l == BigEndianValue(SubSeq(b, 2, 1 + k))
         IN  SubSeq(b, 2 + k, 1 + k + l)

\* A payload without its leading zero bytes.
TrimZeros(p) ==
    LET nonZero == {i \in 1 .. Len(p) : p[i] # 0}
    IN  IF nonZero = {} THEN <<>>
        ELSE SubSeq(p, CHOOSE i \in nonZero : \A j \in nonZero : i <= j, Len(p))

RECURSIVE Concat(_)
Concat(ss) == IF ss = <<>> THEN <<>> ELSE Head(ss) \o Concat(Tail(ss))

\* The list encoding of items already encoded.
RefList(items) ==
    LET body == Concat(items)
    IN  IF Len(body) <= 55 THEN <<192 + Len(body)>> \o body
        ELSE <<247 + Len(BigEndian(Len(body)))>> \o BigEndian(Len(body)) \o body

(* ------------------------------------------------------------------------ *)
(* Views of the state                                                       *)
(* ------------------------------------------------------------------------ *)

Done == pc = "done"
ElementCall == Done /\ call = "element"
ListCall == Done /\ call = "list"

\* The destination's addresses, and an element's source addresses.
DstRange == rlpEncodedOutput .. (rlpEncodedOutput + rlpEncodedOutputLen - 1)
SrcRange(e) == e.buff .. (e.buff + e.len - 1)

\* The source bytes of an element when the call was made.
Payload(e) == [i \in 1 .. e.len |-> mem0[e.buff + i - 1]]

\* The canonical payload: integers lose their leading zero bytes.
Canonical(e) ==
    IF RLP_TYPE_IS_INTEGER_TYPE(e.type) THEN TrimZeros(Payload(e)) ELSE Payload(e)

\* The reference encoding of an element.
RefElement(e) == RefItem(Canonical(e))

\* The first n destination bytes after the call, and n bytes from offset off.
OutAt(off, n) == [i \in 1 .. n |-> mem[rlpEncodedOutput + off + i - 1]]
Out(n) == OutAt(0, n)

\* An element whose type and width the encoder accepts.
ValidElement(e) ==
    /\ ~e.null
    /\ e.type # RLP_TYPE_INVALID
    /\ rlp_type_mem_check(e.len, e.type)

\* The destination is a buffer that shares at least one byte with e's source.
Intersects(e) ==
    /\ rlpEncodedOutput # NULL
    /\ ~e.null
    /\ DstRange \cap SrcRange(e) # {}

\* The elements of the call: the one element, or the list's.
Elements ==
    IF call = "element" THEN <<rlpElement>> ELSE rlpElementsArr.ptrs

\* The arguments are valid apart from the capacity, which is not zero.
ValidCall ==
    /\ rlpEncodedOutput # NULL
    /\ rlpEncodedOutputLen # 0
    /\ call = "list" => ~rlpElementsArr.null
    /\ \A i \in 1 .. Len(Elements) : ValidElement(Elements[i])

\* The size of the full encoding the call is asked for.
FullSize ==
    IF call = "element" THEN Len(RefElement(rlpElement))
    ELSE Len(RefList([i \in 1 .. Len(Elements) |-> RefElement(Elements[i])]))

\* No destination byte has been written.
NothingWritten ==
    /\ wr = {}
    /\ \A a \in DOMAIN mem0 : mem[a] = mem0[a]

(* ------------------------------------------------------------------------ *)
(* C1                                                                       *)
(* ------------------------------------------------------------------------ *)

\* C1: when rlp_encode_element succeeds on a byte string, the value returned
\* and the destination bytes [0, n) are the reference item encoding of the
\* payload (0x80 for the empty string, the byte itself for one byte < 0x80,
\* 0x80+L and the payload up to 55 bytes, 0xB7+K, the K length bytes and the
\* payload beyond).
C1_ByteString ==
    (ElementCall /\ ~rlpElement.null /\ rlpElement.type = RLP_TYPE_BYTE_ARRAY /\ ret > 0)
        => /\ ret = Len(RefItem(Payload(rlpElement)))
           /\ Out(ret) = RefItem(Payload(rlpElement))

(* ------------------------------------------------------------------------ *)
(* C2                                                                       *)
(* ------------------------------------------------------------------------ *)

\* C2: when rlp_encode_element succeeds on an integer of a supported width,
\* the output is the item encoding of the source from its first non-zero byte
\* on (0x80 when every byte is zero), it decodes to those bytes, which start
\* with no zero byte, and the source bytes are unchanged by the call.
C2_Integer ==
    (ElementCall /\ ~rlpElement.null /\ RLP_TYPE_IS_INTEGER_TYPE(rlpElement.type)
       /\ ret > 0)
        => /\ Out(ret) = RefItem(TrimZeros(Payload(rlpElement)))
           /\ RefDecodeItem(Out(ret)) = TrimZeros(Payload(rlpElement))
           /\ \A a \in SrcRange(rlpElement) : mem[a] = mem0[a]

(* ------------------------------------------------------------------------ *)
(* C3                                                                       *)
(* ------------------------------------------------------------------------ *)

\* What rlp_encode_element produces for element i alone, from the memory of
\* the call, into the same destination.
Alone(i) ==
    rlp_encode_element(mem0, rlpEncodedOutput, rlpEncodedOutputLen, Elements[i],
                       memcpyDir)
AloneBytes(i) ==
    LET r == Alone(i)
    IN  [j \in 1 .. r.ret |-> r.mem[rlpEncodedOutput + j - 1]]

\* C3: when rlp_encode_list succeeds on one or more elements, the destination
\* holds the list header (0xC0+P for P <= 55, else 0xF7+K and the K length
\* bytes of P) followed by the elements' encodings in input order, each the
\* bytes rlp_encode_element produces for it alone, and the value returned is
\* the header width plus P.
C3_List ==
    (ListCall /\ ret > 0 /\ Len(Elements) >= 1)
        => LET items == [i \in 1 .. Len(Elements) |-> RefElement(Elements[i])]
               alone == [i \in 1 .. Len(Elements) |-> AloneBytes(i)]
           IN  /\ ret = Len(RefList(items))
               /\ Out(ret) = RefList(items)
               /\ \A i \in 1 .. Len(Elements) :
                     /\ alone[i] = items[i]
                     /\ OutAt(ret - Len(Concat(SubSeq(items, i, Len(items)))),
                              Len(items[i])) = alone[i]

\* Two elements, of different encodings, behind a long list header.
C3_Witness ==
    /\ ListCall
    /\ ret > 0
    /\ Len(Elements) = 2
    /\ mem[rlpEncodedOutput] > RLP_OFFSET_LIST_LONG
    /\ RefElement(Elements[1]) # RefElement(Elements[2])

(* ------------------------------------------------------------------------ *)
(* C4                                                                       *)
(* ------------------------------------------------------------------------ *)

\* C4: rlp_encode_list on zero elements, with a destination of capacity >= 1,
\* returns 1 and leaves 0xC0 in destination byte 0.
C4_EmptyList ==
    (ListCall /\ rlpEncodedOutput # NULL /\ rlpEncodedOutputLen >= 1
       /\ ~rlpElementsArr.null /\ Len(rlpElementsArr.ptrs) = 0)
        => /\ ret = 1
           /\ mem[rlpEncodedOutput] = RLP_OFFSET_LIST_SHORT

(* ------------------------------------------------------------------------ *)
(* C5                                                                       *)
(* ------------------------------------------------------------------------ *)

\* C5: with valid arguments whose sources share no byte with the destination,
\* a capacity that is not zero and is smaller than the full encoding makes
\* either encoder return ERR_RLP_ENOMEM.
C5_InsufficientCapacity ==
    (Done /\ ValidCall /\ (\A i \in 1 .. Len(Elements) : ~Intersects(Elements[i]))
       /\ rlpEncodedOutputLen < FullSize)
        => ret = ERR_RLP_ENOMEM

(* ------------------------------------------------------------------------ *)
(* C6                                                                       *)
(* ------------------------------------------------------------------------ *)

\* C6 as stated: when the destination shares a byte with the source of the
\* element, or of any element of the list, the call (its arguments valid
\* otherwise) returns ERR_RLP_EILLEGALMEM and has written nothing, whatever
\* the capacity and the other elements are.
C6_Original ==
    (Done /\ ValidCall /\ (\E i \in 1 .. Len(Elements) : Intersects(Elements[i])))
        => (ret = ERR_RLP_EILLEGALMEM /\ NothingWritten)

\* The checks the code makes before it tests element i for overlap pass:
\* the argument checks of rlp_encode_element, or the capacity of len + 1 bytes
\* for each list element up to i.
ReachesOverlapCheck(i) ==
    IF call = "element"
    THEN ValidElement(rlpElement) /\ rlpEncodedOutputLen >= rlpElement.len + 1
    ELSE rlpEncodedOutputLen >=
            SeqSum([j \in 1 .. i |-> Elements[j].len + 1])

\* C6 amended: when the destination shares a byte with the source of the
\* element, or of any element of the list, the call fails and has written
\* nothing; it returns ERR_RLP_EILLEGALMEM when the checks made before that
\* element's overlap test pass.
C6_Overlap ==
    \A i \in 1 .. Len(Elements) :
        (Done /\ (call = "list" => ~rlpElementsArr.null) /\ Intersects(Elements[i]))
            => /\ ret < 0
               /\ NothingWritten
               /\ ReachesOverlapCheck(i) => ret = ERR_RLP_EILLEGALMEM

\* A list whose second element overlaps the destination from below.
C6_Witness ==
    /\ ListCall
    /\ Len(Elements) = 2
    /\ Intersects(Elements[2])
    /\ ~Intersects(Elements[1])
    /\ Elements[2].buff < rlpEncodedOutput
    /\ ReachesOverlapCheck(2)
    /\ ret = ERR_RLP_EILLEGALMEM

(* ------------------------------------------------------------------------ *)
(* C7                                                                       *)
(* ------------------------------------------------------------------------ *)

\* C7: when rlp_encode_element returns an error, every byte of memory, and so
\* every destination byte, has the value it had before the call.
C7_ErrorWritesNothing ==
    (ElementCall /\ ret < 0) => NothingWritten

\* ERR_RLP_ENOMEM from the long form, after the checks made up front passed.
C7_Witness ==
    /\ ElementCall
    /\ ret = ERR_RLP_ENOMEM
    /\ rlpEncodedOutputLen >= rlpElement.len + 1
    /\ rlpElement.len > RLP_EXTENDED_LENGTH_THRESHOLD

(* ------------------------------------------------------------------------ *)
(* C8                                                                       *)
(* ------------------------------------------------------------------------ *)

\* C8: in the long form rlp_encode_element reads no byte outside the source
\* and writes no destination byte at an index >= 1 + K + L, the value it
\* returns.
C8_LongCopyInBounds ==
    (ElementCall /\ ret > 0 /\ Len(Canonical(rlpElement)) > RLP_EXTENDED_LENGTH_THRESHOLD)
        => /\ rd \subseteq SrcRange(rlpElement)
           /\ wr \subseteq rlpEncodedOutput .. (rlpEncodedOutput + ret - 1)

(* ------------------------------------------------------------------------ *)
(* C9                                                                       *)
(* ------------------------------------------------------------------------ *)

\* C9: when rlp_encode_list passes the capacity check made before the shift,
\* the shift and the header write touch only destination indices
\* in [0, capacity).
C9_HeaderInBounds ==
    (ListCall /\ ret >= 0) => hdr \subseteq DstRange

(* ------------------------------------------------------------------------ *)
(* C10                                                                      *)
(* ------------------------------------------------------------------------ *)

\* C10: either encoder returns ERR_RLP_EILLEGALMEM only when the destination
\* and the source of some element share at least one byte.
C10_OverlapOnlyWhenShared ==
    (Done /\ ret = ERR_RLP_EILLEGALMEM)
        => \E i \in 1 .. Len(Elements) : Intersects(Elements[i])

====
